---- MODULE Spec2Model ----
(***************************************************************************)
(* Vigil (daniel-odulate22/vigil-scan): the offline dose queue             *)
(* (src/lib/offlineStore.ts), the sync hook (src/hooks/useOfflineSync.ts), *)
(* the dose confirmation of the Index page (src/pages/Index.tsx) and the   *)
(* barcode scanner component (src/components/BarcodeScanner.tsx).          *)
(***************************************************************************)
EXTENDS Integers, Sequences, FiniteSets, Bags, TLC

\* ------------------------------------------------------------------ bounds
MaxDoses == 2
MaxMounts == 2
MaxRows == 2
MaxEngines == 2
MaxTasks == 2
MaxRetries == 6
MaxLogged == 12

\* ------------------------------------------------------------- value sets
NoUser == "none"
Users == {"u1"}
Meds == {"m1", "m2"}
DoseIds == 1..MaxDoses

\* What VerifyModal hands to onConfirm: a ManualMedicationData (it has the key
\* medication_name) or an OpenFDA result (brand_name / generic_name).
ManualDatas == {[medication_name |-> "m1", ndc_code |-> "0"]}
FdaDatas == {[brand_name |-> "m2", generic_name |-> "m1"]}
Datas == ManualDatas \cup FdaDatas

\* Barcode values a frame can decode to; None is the refs' null.
Codes == {"a", "b"}
None == "null"
EngineIds == 1..MaxEngines

\* navigator.permissions: the state of the 'camera' permission.
HostPerms == {"prompt", "granted", "denied"}

\* How html5QrCode.start() and getUserMedia() can settle.
CameraOutcomes == {"ok", "NotAllowedError", "NotReadableError"}

VARIABLES
    store,       \* IndexedDB object store 'pending-doses': id -> PendingDose
    dose_logs,   \* remote table dose_logs: a bag of inserted rows
    nextId,      \* crypto.randomUUID() values handed out so far
    isOnline,    \* useOnlineStatus()
    user,        \* useAuth().user (NoUser when signed out)
    mounts,      \* how many times Index (and with it the hook) was mounted
    hooks,       \* per mount of useOfflineSync: refs, timers, the drain pass
    confirm,     \* the most recent handleConfirmDose call and what it showed
    api,         \* the two most recent direct calls of the store's functions
    sc,          \* BarcodeScanner: the isOpen prop, its state and its refs
    engines,     \* the Html5Qrcode instances created so far, by slot
    tasks,       \* suspended async calls of the scanner (at an await)
    hostPerm,    \* the browser's camera permission for the page
    clock,       \* time since the decodes that invoked the success callback
    debugInfo,   \* BarcodeScanner: the state of the debug panel (its errors)
    logged       \* every error string handed to addDebugError so far

syncVars == <<store, dose_logs, nextId, isOnline, user, mounts, hooks, confirm>>
scanVars == <<sc, engines, tasks, hostPerm, clock>>
vars == <<store, dose_logs, nextId, isOnline, user, mounts, hooks, confirm, api,
          sc, engines, tasks, hostPerm, clock, debugInfo, logged>>

\* ------------------------------------------------------------ offlineStore
RECURSIVE SortedIds(_)
SortedIds(S) ==
    IF S = {} THEN <<>>
    ELSE LET m == CHOOSE x \in S : \A y \in S : x <= y
         IN <<m>> \o SortedIds(S \ {m})

SeqRange(s) == {s[k] : k \in 1..Len(s)}

\* A save whose promise resolves although the add was rejected.
savePendingDose_ResolvesOnConstraintError(s, dose, dbOk) ==
    IF dbOk /\ dose.id \notin DOMAIN s
    THEN [ok |-> TRUE,
          store |-> [k \in DOMAIN s \cup {dose.id} |->
                        IF k = dose.id THEN dose ELSE s[k]]]
    ELSE [ok |-> dbOk, store |-> s]

\* store.add(dose) with keyPath 'id': a ConstraintError when the key exists.
\* dbOk = FALSE: openDB or the request is rejected.
savePendingDose(s, dose, dbOk) ==
    IF dbOk /\ dose.id \notin DOMAIN s
    THEN [ok |-> TRUE,
          store |-> [k \in DOMAIN s \cup {dose.id} |->
                        IF k = dose.id THEN dose ELSE s[k]]]
    ELSE [ok |-> FALSE, store |-> s]

\* store.getAll(): the records in key order.
getPendingDoses(s) ==
    LET ids == SortedIds(DOMAIN s) IN [k \in 1..Len(ids) |-> s[ids[k]]]

\* store.delete(id): deleting an absent key succeeds.
removePendingDose(s, id, dbOk) ==
    IF dbOk
    THEN [ok |-> TRUE, store |-> [k \in DOMAIN s \ {id} |-> s[k]]]
    ELSE [ok |-> FALSE, store |-> s]

\* ------------------------------------------------------------------ hooks
IdleHook ==
    [mounted |-> FALSE, isSyncing |-> FALSE, pc |-> "idle", by |-> "none",
     pendingDoses |-> <<>>, i |-> 0, okIds |-> {},
     syncedCount |-> 0, failedCount |-> 0,
     toastSynced |-> 0, toastFailed |-> 0, finished |-> FALSE,
     reconnectTimer |-> FALSE, interval |-> FALSE]

NoConfirm == [toast |-> "none", id |-> 0, manual |-> FALSE]
NoDose == [id |-> 0, user_id |-> NoUser, medication_name |-> "", verified |-> FALSE]
NoCall == [name |-> "none", ok |-> FALSE, dose |-> NoDose, id |-> 0, result |-> <<>>]

\* A slot without an engine.  st is the engine's state (starting until
\* start() settles, then scanning, stopping while stop() runs); track is its
\* camera track; dom: its container element is in the document; vid: its
\* <video> element is in that container; cap: the track's capabilities have
\* a torch field.
FreeEngine ==
    [st |-> "none", track |-> "none", dom |-> FALSE, vid |-> FALSE,
     cap |-> FALSE]

\* BarcodeScanner after its first render with isOpen = false.
InitScanner ==
    [isOpen |-> FALSE, permissionState |-> "prompt", isScanning |-> FALSE,
     isInitializing |-> FALSE, scannerRef |-> 0, lastScannedRef |-> None,
     debounceTimeoutRef |-> FALSE, isStartingRef |-> FALSE,
     isOpenRef |-> FALSE, videoTrackRef |-> 0, onchange |-> FALSE,
     torchSupported |-> FALSE, torchEnabled |-> FALSE,
     errorType |-> None, errorMessage |-> None, retryCountRef |-> 0,
     delay |-> 0]

\* recent: the values for which the decode callback got past its guard during
\* the last 3000 ms, oldest first.  lastAcc: the engine and the value of the
\* last decode that got past the guard.
InitClock == [recent |-> <<>>, lastAcc |-> <<0, None>>]

Init ==
    /\ store = << >>
    /\ dose_logs = EmptyBag
    /\ nextId = 0
    /\ isOnline \in BOOLEAN
    /\ user = NoUser
    /\ mounts = 0
    /\ hooks = [h \in 1..MaxMounts |-> IdleHook]
    /\ confirm = NoConfirm
    /\ api = <<NoCall, NoCall>>
    /\ sc = InitScanner
    /\ engines = [e \in EngineIds |-> FreeEngine]
    /\ tasks = {}
    /\ hostPerm = "prompt"
    /\ clock = InitClock
    /\ debugInfo = [errors |-> <<>>]
    /\ logged = <<>>

\* ------------------------------------------------- useOfflineSync: effects
CurrentHook == IF mounts > 0 /\ hooks[mounts].mounted THEN mounts ELSE 0

\* Effects that arm the timers whatever the connectivity is.
RunEffects_IgnoresOnline(hk, online, usr) ==
    [hk EXCEPT !.reconnectTimer = hk.mounted /\ usr # NoUser,
               !.interval = hk.mounted /\ usr # NoUser]

\* The reconnect effect (setTimeout 1000) and the periodic effect (setInterval):
\* both are torn down and set up again whenever isOnline, user or
\* syncPendingDoses changes, and armed only when isOnline && user.
RunEffects(hk, online, usr) ==
    [hk EXCEPT !.reconnectTimer = hk.mounted /\ online /\ usr # NoUser,
               !.interval = hk.mounted /\ online /\ usr # NoUser]

Mount ==
    /\ mounts < MaxMounts
    /\ CurrentHook = 0
    /\ mounts' = mounts + 1
    /\ hooks' = [hooks EXCEPT ![mounts + 1] =
                    RunEffects([IdleHook EXCEPT !.mounted = TRUE], isOnline, user)]
    /\ UNCHANGED <<store, dose_logs, nextId, isOnline, user, confirm, api, sc, engines, tasks, hostPerm, clock, debugInfo, logged>>

\* Navigating away from "/" unmounts Index: the effect cleanups clear both
\* timers; a drain pass that is awaiting keeps running.
Unmount ==
    /\ CurrentHook # 0
    /\ hooks' = [hooks EXCEPT ![CurrentHook] =
                    [@ EXCEPT !.mounted = FALSE, !.reconnectTimer = FALSE,
                              !.interval = FALSE]]
    /\ UNCHANGED <<store, dose_logs, nextId, isOnline, user, mounts, confirm, api, sc, engines, tasks, hostPerm, clock, debugInfo, logged>>

SetOnline(b) ==
    /\ isOnline # b
    /\ isOnline' = b
    /\ hooks' = [h \in 1..MaxMounts |-> RunEffects(hooks[h], b, user)]
    /\ UNCHANGED <<store, dose_logs, nextId, user, mounts, confirm, api, sc, engines, tasks, hostPerm, clock, debugInfo, logged>>

SetUser(u) ==
    /\ user # u
    /\ user' = u
    /\ hooks' = [h \in 1..MaxMounts |-> RunEffects(hooks[h], isOnline, u)]
    /\ UNCHANGED <<store, dose_logs, nextId, isOnline, mounts, confirm, api, sc, engines, tasks, hostPerm, clock, debugInfo, logged>>

\* --------------------------------------- useOfflineSync: syncPendingDoses
\* The synchronous head of syncPendingDoses: the guard, then the flag.
\* by: the trigger that made the call.
syncPendingDoses(hk, by) ==
    IF user = NoUser \/ hk.isSyncing
    THEN hk
    ELSE [hk EXCEPT !.isSyncing = TRUE, !.pc = "list", !.by = by,
                    !.pendingDoses = <<>>, !.i = 0, !.okIds = {},
                    !.syncedCount = 0, !.failedCount = 0,
                    !.toastSynced = 0, !.toastFailed = 0, !.finished = FALSE]

ReconnectFire(h) ==
    /\ hooks[h].reconnectTimer
    /\ hooks' = [hooks EXCEPT ![h] =
                    syncPendingDoses([hooks[h] EXCEPT !.reconnectTimer = FALSE],
                                     "reconnect")]
    /\ UNCHANGED <<store, dose_logs, nextId, isOnline, user, mounts, confirm, api, sc, engines, tasks, hostPerm, clock, debugInfo, logged>>

IntervalFire(h) ==
    /\ hooks[h].interval
    /\ hooks' = [hooks EXCEPT ![h] = syncPendingDoses(hooks[h], "interval")]
    /\ UNCHANGED <<store, dose_logs, nextId, isOnline, user, mounts, confirm, api, sc, engines, tasks, hostPerm, clock, debugInfo, logged>>

\* A pass without its finally block.
FinishPass_NoFinally(hk) ==
    [hk EXCEPT !.toastSynced = hk.syncedCount, !.toastFailed = hk.failedCount,
               !.pc = "idle", !.by = "none",
               !.finished = TRUE,
               !.pendingDoses = <<>>, !.i = 0, !.okIds = {},
               !.syncedCount = 0, !.failedCount = 0]

\* After the loop: the two toasts, then finally { isSyncing.current = false }.
\* The locals of the pass are gone once it returns.
FinishPass(hk) ==
    [hk EXCEPT !.toastSynced = hk.syncedCount, !.toastFailed = hk.failedCount,
               !.isSyncing = FALSE, !.pc = "idle", !.by = "none",
               !.finished = TRUE,
               !.pendingDoses = <<>>, !.i = 0, !.okIds = {},
               !.syncedCount = 0, !.failedCount = 0]

\* The end of one loop iteration: the next record, or the end of the pass.
NextRecord(hk) ==
    IF hk.i < Len(hk.pendingDoses)
    THEN [hk EXCEPT !.i = hk.i + 1, !.pc = "insert"]
    ELSE FinishPass(hk)

\* await getPendingDoses() settles.
ListResolve(h, dbOk) ==
    /\ hooks[h].pc = "list"
    /\ LET hk == hooks[h]
           all == getPendingDoses(store)
       IN hooks' = [hooks EXCEPT ![h] =
             IF ~dbOk \/ Len(all) = 0
             THEN [hk EXCEPT !.isSyncing = FALSE, !.pc = "idle", !.by = "none"]
             ELSE [hk EXCEPT !.pendingDoses = all, !.i = 1, !.pc = "insert"]]
    /\ UNCHANGED <<store, dose_logs, nextId, isOnline, user, mounts, confirm, api, sc, engines, tasks, hostPerm, clock, debugInfo, logged>>

\* The row that the pass inserts for a queue record.  id is no column of
\* dose_logs: it remembers the queue record that a row was written from
\* (0: the row was written by handleConfirmDose).
Row(dose) ==
    [id |-> dose.id, user_id |-> dose.user_id,
     medication_name |-> dose.medication_name, verified |-> dose.verified]

\* await supabase.from('dose_logs').insert(...) settles: "ok" ({error: null}),
\* "error" ({error}) or "throw" (the promise rejects).
InsertResolve(h, r) ==
    /\ hooks[h].pc = "insert"
    /\ LET hk == hooks[h]
           dose == hk.pendingDoses[hk.i]
       IN IF r = "ok"
          THEN /\ BagCardinality(dose_logs) < MaxRows
               /\ dose_logs' = dose_logs (+) SetToBag({Row(dose)})
               /\ hooks' = [hooks EXCEPT ![h] =
                     [hk EXCEPT !.pc = "remove",
                                !.okIds = hk.okIds \cup {dose.id}]]
          ELSE /\ dose_logs' = dose_logs
               /\ hooks' = [hooks EXCEPT ![h] =
                     NextRecord([hk EXCEPT !.failedCount = hk.failedCount + 1])]
    /\ UNCHANGED <<store, nextId, isOnline, user, mounts, confirm, api, sc, engines, tasks, hostPerm, clock, debugInfo, logged>>

\* await removePendingDose(dose.id) settles; a rejection lands in the inner catch.
RemoveResolve(h, dbOk) ==
    /\ hooks[h].pc = "remove"
    /\ LET hk == hooks[h]
           out == removePendingDose(store, hk.pendingDoses[hk.i].id, dbOk)
       IN /\ store' = out.store
          /\ hooks' = [hooks EXCEPT ![h] =
                IF out.ok
                THEN NextRecord([hk EXCEPT !.syncedCount = hk.syncedCount + 1])
                ELSE NextRecord([hk EXCEPT !.failedCount = hk.failedCount + 1])]
    /\ UNCHANGED <<dose_logs, nextId, isOnline, user, mounts, confirm, api, sc, engines, tasks, hostPerm, clock, debugInfo, logged>>

\* ------------------------------------------------ Index: handleConfirmDose
isManualEntry(data) == "medication_name" \in DOMAIN data

MedicationName(data) ==
    IF isManualEntry(data) THEN data.medication_name
    ELSE IF "brand_name" \in DOMAIN data THEN data.brand_name
    ELSE IF "generic_name" \in DOMAIN data THEN data.generic_name
    ELSE "Unknown"

DoseData(data) ==
    [user_id |-> user, medication_name |-> MedicationName(data),
     verified |-> ~isManualEntry(data)]

\* Online: insert into dose_logs (its {error} is not looked at), 'Dose logged!'.
ConfirmOnline(data, r) ==
    /\ CurrentHook # 0 /\ user # NoUser /\ isOnline
    /\ IF r = "ok"
       THEN /\ BagCardinality(dose_logs) < MaxRows
            /\ dose_logs' = dose_logs (+) SetToBag({[id |-> 0] @@ DoseData(data)})
       ELSE dose_logs' = dose_logs
    /\ confirm' = [toast |-> IF r = "throw" THEN "Error" ELSE "Dose logged!",
                   id |-> 0, manual |-> data \in ManualDatas]
    /\ UNCHANGED <<store, nextId, isOnline, user, mounts, hooks, api, sc, engines, tasks, hostPerm, clock, debugInfo, logged>>

\* A handleConfirmDose that does not await savePendingDose.
ConfirmOffline_NotAwaited(data, dbOk) ==
    /\ CurrentHook # 0 /\ user # NoUser /\ ~isOnline
    /\ nextId < MaxDoses
    /\ LET pendingDose == [id |-> nextId + 1] @@ DoseData(data)
           out == savePendingDose(store, pendingDose, dbOk)
       IN /\ store' = out.store
          /\ confirm' = [toast |-> "Saved offline",
                         id |-> nextId + 1, manual |-> data \in ManualDatas]
    /\ nextId' = nextId + 1
    /\ UNCHANGED <<dose_logs, isOnline, user, mounts, hooks, api, sc, engines, tasks, hostPerm, clock, debugInfo, logged>>

\* Offline: savePendingDose of a record with a fresh id, 'Saved offline'.
ConfirmOffline(data, dbOk) ==
    /\ CurrentHook # 0 /\ user # NoUser /\ ~isOnline
    /\ nextId < MaxDoses
    /\ LET pendingDose == [id |-> nextId + 1] @@ DoseData(data)
           out == savePendingDose(store, pendingDose, dbOk)
       IN /\ store' = out.store
          /\ confirm' = [toast |-> IF out.ok THEN "Saved offline" ELSE "Error",
                         id |-> nextId + 1, manual |-> data \in ManualDatas]
    /\ nextId' = nextId + 1
    /\ UNCHANGED <<dose_logs, isOnline, user, mounts, hooks, api, sc, engines, tasks, hostPerm, clock, debugInfo, logged>>

\* ------------------------------------- direct calls of the store's functions
\* Any PendingDose, any id: the three exported functions called on any queue.
ApiDoses ==
    [id : DoseIds, user_id : Users, medication_name : Meds, verified : BOOLEAN]

ApiSave(dose, dbOk) ==
    /\ LET out == savePendingDose(store, dose, dbOk)
       IN /\ store' = out.store
          /\ api' = <<api[2], [NoCall EXCEPT !.name = "save", !.ok = out.ok,
                                             !.dose = dose, !.id = dose.id]>>
    /\ UNCHANGED <<dose_logs, nextId, isOnline, user, mounts, hooks, confirm, sc, engines, tasks, hostPerm, clock, debugInfo, logged>>

ApiGet(dbOk) ==
    /\ api' = <<api[2], [NoCall EXCEPT !.name = "get", !.ok = dbOk,
                            !.result = IF dbOk THEN getPendingDoses(store)
                                       ELSE <<>>]>>
    /\ UNCHANGED <<store, dose_logs, nextId, isOnline, user, mounts, hooks, confirm, sc, engines, tasks, hostPerm, clock, debugInfo, logged>>

ApiRemove(id, dbOk) ==
    /\ LET out == removePendingDose(store, id, dbOk)
       IN /\ store' = out.store
          /\ api' = <<api[2], [NoCall EXCEPT !.name = "remove", !.ok = out.ok,
                                             !.id = id]>>
    /\ UNCHANGED <<dose_logs, nextId, isOnline, user, mounts, hooks, confirm, sc, engines, tasks, hostPerm, clock, debugInfo, logged>>

\* ---------------------------------------------- BarcodeScanner: the helpers
\* The operators below work on W = [sc, engines, tasks, over]: the scanner's
\* state, the engines, the suspended calls, and over = the step needs more
\* suspended calls than MaxTasks allows.
World == [sc |-> sc, engines |-> engines, tasks |-> tasks, over |-> FALSE]

Task(fn, pc, eng, then) == [fn |-> fn, pc |-> pc, eng |-> eng, then |-> then]

Spawn(W, t) ==
    [W EXCEPT !.tasks = @ \cup {t},
              !.over = @ \/ t \in W.tasks \/ Cardinality(W.tasks) >= MaxTasks]

\* An engine nothing refers to any more, that is not starting and holds no
\* live track, is garbage: its slot is free again.
Referenced(W, e) ==
    \/ W.sc.scannerRef = e
    \/ W.sc.videoTrackRef = e
    \/ \E t \in W.tasks : t.eng = e

Collect(W) ==
    [W EXCEPT !.engines = [e \in EngineIds |->
        IF ~Referenced(W, e) /\ @[e].st # "starting" /\ @[e].track # "live"
        THEN FreeEngine ELSE @[e]]]

\* Stops the tracks of every <video> element that is in the document.
releaseMediaStreams(W) ==
    [W EXCEPT !.engines = [e \in EngineIds |->
        IF @[e].dom /\ @[e].vid /\ @[e].track = "live"
        THEN [@[e] EXCEPT !.track = "stopped"] ELSE @[e]]]

\* Html5Qrcode.clear() of engine e: throws while e is scanning, and otherwise
\* empties the element with id 'scanner-container' that is in the document.
clear(W, e) ==
    IF W.engines[e].st \in {"scanning", "stopping"} THEN W
    ELSE [W EXCEPT !.engines = [x \in EngineIds |->
             IF @[x].dom THEN [@[x] EXCEPT !.vid = FALSE] ELSE @[x]]]

\* A stopScanner that lets go of the camera but keeps the engine handle.
stopScanner_Tail_KeepsHandle(W) ==
    [releaseMediaStreams(W) EXCEPT !.sc.isScanning = FALSE,
                                    !.sc.isInitializing = FALSE]

\* stopScanner from 'await scannerRef.current.clear()' on; the call is made on
\* whatever scannerRef holds by then (on null it throws into the catch).
stopScanner_Tail(W) ==
    LET W1 == IF W.sc.scannerRef # 0 THEN clear(W, W.sc.scannerRef) ELSE W
        W2 == [W1 EXCEPT !.sc.scannerRef = 0]
    IN [releaseMediaStreams(W2) EXCEPT !.sc.isScanning = FALSE,
                                         !.sc.isInitializing = FALSE]

\* stopScanner() up to its first await that waits for the engine.  then: the
\* value that .then(() => onScanSuccess(value)) will report, or None.
\* Only an engine in state SCANNING is stopped; stop() on an engine that is
\* already stopping throws into the catch.
stopScanner(W, then) ==
    LET e == W.sc.scannerRef
        W1 == [W EXCEPT !.sc.isStartingRef = FALSE,
                        !.sc.torchEnabled = FALSE,
                        !.sc.videoTrackRef = 0]
    IN IF e # 0 /\ W.engines[e].st = "scanning"
       THEN Spawn([W1 EXCEPT !.engines[e].st = "stopping"],
                  Task("stopScanner", "stop", e, then))
       ELSE IF e # 0 /\ W.engines[e].st = "stopping"
       THEN [releaseMediaStreams([W1 EXCEPT !.sc.scannerRef = 0])
                EXCEPT !.sc.isScanning = FALSE, !.sc.isInitializing = FALSE]
       ELSE stopScanner_Tail(W1)

\* startScanner() up to its first await: the two guards, the flags, then the
\* 200 ms settle delay.
startScanner(W) ==
    IF ~W.sc.isOpenRef THEN W
    ELSE IF W.sc.isStartingRef \/ W.sc.scannerRef # 0 THEN W
    ELSE Spawn([releaseMediaStreams(W) EXCEPT !.sc.isStartingRef = TRUE,
                                                !.sc.isInitializing = TRUE,
                                                !.sc.errorMessage = None],
               Task("startScanner", "settle", 0, None))

\* The open/close effect, run by React after a render in which isOpen or the
\* identity of startScanner changed: first the cleanup that the previous run
\* returned (it returned one only when isOpen was true), then the body.
\* Closing takes the container out of the document.
OpenCloseEffect(W, open) ==
    LET W1 == IF W.sc.isOpenRef
              THEN [stopScanner(W, None) EXCEPT !.sc.debounceTimeoutRef = FALSE]
              ELSE W
        W2 == [W1 EXCEPT !.sc.isOpen = open, !.sc.isOpenRef = open]
        W3 == stopScanner(W2, None)
    IN IF open THEN Spawn(W2, Task("permissions.query", "query", 0, None))
       ELSE [W3 EXCEPT !.engines = [e \in EngineIds |->
                                       [@[e] EXCEPT !.dom = FALSE]]]

\* Index.handleScanSuccess: setScannerOpen(false) (with the barcode and the
\* verify modal), and the render that follows runs the effect.
handleScanSuccess(W, barcode) == OpenCloseEffect(W, FALSE)

\* The backoff of handleRetry, in ms, for the value of retryCountRef.
RetryDelay(retryCount) ==
    IF 500 + retryCount * 300 < 2000 THEN 500 + retryCount * 300 ELSE 2000

\* handleRetry after 'await stopScanner()': the delay is computed from the
\* counter as it is by then, and the timer is set.  sc.delay keeps the delay
\* of the last retry since the camera last started (0: there was none).
handleRetry_AfterStop(W) ==
    Spawn([W EXCEPT !.sc.delay = RetryDelay(W.sc.retryCountRef)],
          Task("handleRetry", "delay", 0, None))

\* handleRetry up to its first await that waits for something.
handleRetry(W) ==
    LET W1 == [W EXCEPT !.sc.errorMessage = None, !.sc.errorType = None,
                        !.sc.retryCountRef = @ + 1]
        W2 == stopScanner(W1, "retry")
    IN IF W2.tasks # W1.tasks THEN W2 ELSE handleRetry_AfterStop(W2)

\* handleRequestPermission up to await getUserMedia.
handleRequestPermission(W) ==
    Spawn(releaseMediaStreams(W),
          Task("handleRequestPermission", "getUserMedia", 0, None))

\* The promise of stopScanner() settles: .then(() => onScanSuccess(value)) of
\* the decode callback, or the rest of handleRetry.
stopScanner_Then(W, then) ==
    IF then = None THEN W
    ELSE IF then = "retry" THEN handleRetry_AfterStop(W)
    ELSE handleScanSuccess(W, then)

\* ----------------------------------------------- BarcodeScanner: the errors
\* What a rejected camera request throws, by outcome: the name and the message
\* of the DOMException.  "string": html5-qrcode rejects with a plain string,
\* which has neither.  "container": startScanner's own Error.
HostError(r) ==
    CASE r = "NotAllowedError" ->
           [name |-> r, message |-> "Permission denied"]
      [] r = "NotReadableError" ->
           [name |-> r, message |-> "Could not start video source"]
      [] r = "NotFoundError" ->
           [name |-> r, message |-> "Requested device not found"]
      [] r = "OverconstrainedError" ->
           [name |-> r, message |-> "Cannot satisfy constraints"]
      [] r = "AbortError" ->
           [name |-> r, message |-> "Starting videoinput failed"]
      [] r = "container" ->
           [name |-> "Error", message |-> "Scanner container not found"]
      [] OTHER -> [name |-> "", message |-> ""]

\* message.includes(word), for the words the catch blocks look for.
Includes(message, word) ==
    CASE word = "Permission" -> message = "Permission denied"
      [] word = "Could not start" -> message = "Could not start video source"
      [] word = "in use" -> FALSE
      [] word = "not found" ->
           message \in {"Requested device not found",
                        "Scanner container not found"}
      [] OTHER -> FALSE

\* The classification in the catch of startScanner: permissionState, errorType
\* and errorMessage.
startScanner_Classify(err) ==
    IF err.name = "NotAllowedError" \/ Includes(err.message, "Permission")
    THEN <<"denied", "denied", "Camera access was denied. Please allow camera access to scan barcodes.">>
    ELSE IF \/ err.name = "NotReadableError"
            \/ Includes(err.message, "Could not start")
            \/ Includes(err.message, "in use")
    THEN <<"error", "busy", "Camera is busy or unavailable. Please close other camera apps and try again.">>
    ELSE IF err.name = "NotFoundError" \/ Includes(err.message, "not found")
    THEN <<"error", "not-found", "No camera found on this device.">>
    ELSE IF err.name = "OverconstrainedError"
    THEN <<"error", "generic", "Camera settings not supported. Please try again.">>
    ELSE <<"error", "generic",
           IF err.message # "" THEN err.message
           ELSE "Failed to start camera. Please try again.">>

\* A catch of handleRequestPermission without the NotReadableError branch.
handleRequestPermission_Catch_NoBusy(W, err) ==
    IF err.name = "NotAllowedError"
    THEN [W EXCEPT !.sc.permissionState = "denied", !.sc.errorType = "denied"]
    ELSE [W EXCEPT !.sc.permissionState = "error", !.sc.errorType = "generic",
                   !.sc.errorMessage = IF err.message # "" THEN err.message
                                       ELSE "Failed to access camera."]

\* The catch of handleRequestPermission; its denied branch sets no message.
handleRequestPermission_Catch(W, err) ==
    IF err.name = "NotAllowedError"
    THEN [W EXCEPT !.sc.permissionState = "denied", !.sc.errorType = "denied"]
    ELSE IF err.name = "NotReadableError"
    THEN [W EXCEPT !.sc.permissionState = "error", !.sc.errorType = "busy",
                   !.sc.errorMessage = "Camera is busy. Please close other apps using the camera."]
    ELSE [W EXCEPT !.sc.permissionState = "error", !.sc.errorType = "generic",
                   !.sc.errorMessage = IF err.message # "" THEN err.message
                                       ELSE "Failed to access camera."]

\* ---------------------------------------------- BarcodeScanner: the actions
\* The step leaves the world W behind (with its garbage collected).
Apply(W) ==
    LET C == Collect(W)
    IN /\ ~W.over
       /\ sc' = C.sc
       /\ engines' = C.engines
       /\ tasks' = C.tasks

Without(t) == [World EXCEPT !.tasks = @ \ {t}]

\* Index: the Scan button, setScannerOpen(true).
ScanClick ==
    /\ ~sc.isOpen
    /\ Apply(OpenCloseEffect(World, TRUE))
    /\ UNCHANGED <<hostPerm, clock, syncVars, api, debugInfo, logged>>

\* The scanner's close button: onClose = () => setScannerOpen(false).
onClose ==
    /\ sc.isOpen
    /\ Apply(OpenCloseEffect(World, FALSE))
    /\ UNCHANGED <<hostPerm, clock, syncVars, api, debugInfo, logged>>

\* Index renders again for a reason of its own: handleScanSuccess is a new
\* function, so startScanner is, and the effect runs again with isOpen as is.
ParentRerender ==
    /\ Apply(OpenCloseEffect(World, sc.isOpen))
    /\ UNCHANGED <<hostPerm, clock, syncVars, api, debugInfo, logged>>

\* What the query's .then and the onchange handler do with the state.
OnPermission(W, state) ==
    IF state = "granted"
    THEN startScanner([W EXCEPT !.sc.permissionState = "granted"])
    ELSE IF state = "denied"
    THEN [W EXCEPT !.sc.permissionState = "denied"]
    ELSE W

\* navigator.permissions.query settles: the state, then the onchange handler
\* is installed (it is never taken off).
QueryResolve(t) ==
    /\ t \in tasks /\ t.fn = "permissions.query"
    /\ LET W == [Without(t) EXCEPT !.sc.onchange = TRUE]
       IN Apply(IF hostPerm = "prompt"
                THEN [W EXCEPT !.sc.permissionState = "prompt"]
                ELSE OnPermission(W, hostPerm))
    /\ UNCHANGED <<hostPerm, clock, syncVars, api, debugInfo, logged>>

\* navigator.permissions.query rejects (the host does not know the name
\* 'camera'): the .catch calls handleRequestPermission().
QueryReject(t) ==
    /\ t \in tasks /\ t.fn = "permissions.query"
    /\ Apply(handleRequestPermission(Without(t)))
    /\ UNCHANGED <<hostPerm, clock, syncVars, api, debugInfo, logged>>

\* The user changes the camera permission (at the browser's prompt or in its
\* settings); an installed onchange handler runs.
HostPermChange(p) ==
    /\ p # hostPerm
    /\ hostPerm' = p
    /\ Apply(IF sc.onchange THEN OnPermission(World, p) ELSE World)
    /\ UNCHANGED <<clock, syncVars, api, debugInfo, logged>>

\* The 'Allow camera' button of the prompt view: handleRequestPermission up to
\* await getUserMedia.
RequestClick ==
    /\ sc.isOpen /\ sc.permissionState = "prompt"
    /\ ~sc.isInitializing /\ ~sc.isScanning
    /\ Apply(handleRequestPermission(World))
    /\ UNCHANGED <<hostPerm, clock, syncVars, api, debugInfo, logged>>

\* getUserMedia of handleRequestPermission settles.
GetUserMediaResolve(t, r) ==
    /\ t \in tasks /\ t.fn = "handleRequestPermission" /\ t.pc = "getUserMedia"
    /\ (r = "ok") => hostPerm = "granted"
    /\ (r = "NotAllowedError") => hostPerm # "granted"
    /\ Apply(IF r = "ok"
             THEN Spawn([Without(t) EXCEPT !.sc.permissionState = "granted",
                                           !.sc.retryCountRef = 0],
                        Task("handleRequestPermission", "delay", 0, None))
             ELSE handleRequestPermission_Catch(Without(t), HostError(r)))
    /\ UNCHANGED <<hostPerm, clock, syncVars, api, debugInfo, logged>>

\* The 300 ms and the paint of handleRequestPermission are over: startScanner().
RequestDelayDone(t) ==
    /\ t \in tasks /\ t.fn = "handleRequestPermission" /\ t.pc = "delay"
    /\ Apply(startScanner(Without(t)))
    /\ UNCHANGED <<hostPerm, clock, syncVars, api, debugInfo, logged>>

\* 'Try Again' of the denied view and of the error view: handleRetry.
RetryClick ==
    /\ sc.isOpen /\ sc.permissionState \in {"denied", "error"}
    /\ ~sc.isInitializing /\ ~sc.isScanning
    /\ sc.retryCountRef < MaxRetries
    /\ Apply(handleRetry(World))
    /\ UNCHANGED <<hostPerm, clock, syncVars, api, debugInfo, logged>>

\* The backoff timer of handleRetry fires: setPermissionState('prompt') and
\* handleRequestPermission(), whether the scanner is still open or not.
RetryDelayDone(t) ==
    /\ t \in tasks /\ t.fn = "handleRetry" /\ t.pc = "delay"
    /\ Apply(handleRequestPermission(
                [Without(t) EXCEPT !.sc.permissionState = "prompt"]))
    /\ UNCHANGED <<hostPerm, clock, syncVars, api, debugInfo, logged>>

\* The catch of startScanner.  scannerRef keeps the engine.
startScanner_Catch(W, err) ==
    [releaseMediaStreams(W) EXCEPT
        !.sc.isInitializing = FALSE, !.sc.isScanning = FALSE,
        !.sc.isStartingRef = FALSE,
        !.sc.permissionState = startScanner_Classify(err)[1],
        !.sc.errorType = startScanner_Classify(err)[2],
        !.sc.errorMessage = startScanner_Classify(err)[3]]

\* startScanner after the settle delay, the paint and enumerateDevices: the
\* container check (and the engine's own lookup of the container), then
\* new Html5Qrcode, scannerRef.current = it, and html5QrCode.start(...).
StartSettled(t, e) ==
    /\ t \in tasks /\ t.fn = "startScanner" /\ t.pc = "settle"
    /\ IF ~sc.isOpen
       THEN /\ e = 1
            /\ Apply(startScanner_Catch(Without(t), HostError("container")))
       ELSE /\ engines[e] = FreeEngine
            /\ \A x \in EngineIds : engines[x] = FreeEngine => e <= x
            /\ Apply(Spawn([Without(t) EXCEPT
                              !.sc.scannerRef = e,
                              !.engines[e] = [st |-> "starting",
                                              track |-> "none",
                                              dom |-> TRUE, vid |-> FALSE,
                                              cap |-> FALSE]],
                           Task("startScanner", "start", e, None)))
    /\ clock' = IF sc.isOpen /\ clock.lastAcc[1] = e
                THEN [clock EXCEPT !.lastAcc = <<0, @[2]>>] ELSE clock
    /\ UNCHANGED <<hostPerm, syncVars, api, debugInfo, logged>>

\* await html5QrCode.start(...) settles.  A start is never abandoned: the
\* engine goes on to acquire the camera whatever stopScanner did meanwhile.
\* torch: the capabilities of the acquired track have a torch field;
\* updateTrackDebugInfo then sets torchSupported (and never resets it).
StartResolveWith(t, r, torch) ==
    /\ t \in tasks /\ t.fn = "startScanner" /\ t.pc = "start"
    /\ (r = "ok") => hostPerm = "granted"
    /\ (r = "NotAllowedError") => hostPerm # "granted"
    /\ LET e == t.eng
           W == Without(t)
       IN Apply(IF r = "ok"
                THEN [W EXCEPT !.engines[e].st = "scanning",
                               !.engines[e].track = "live",
                               !.engines[e].vid = TRUE,
                               !.engines[e].cap = torch,
                               !.sc.torchSupported = @ \/ torch,
                               !.sc.permissionState = "granted",
                               !.sc.isScanning = TRUE,
                               !.sc.isInitializing = FALSE,
                               !.sc.videoTrackRef = e,
                               !.sc.isStartingRef = FALSE,
                               !.sc.delay = 0]
                ELSE startScanner_Catch([W EXCEPT !.engines[e].st = "failed"],
                                        HostError(r)))
    /\ UNCHANGED <<hostPerm, clock, syncVars, api, debugInfo, logged>>

\* The camera of the model's main specifications has no torch.
StartResolve(t, r) == StartResolveWith(t, r, FALSE)

\* toggleTorch up to await applyConstraints: the guard on videoTrackRef and
\* torchSupported, then the call with the negated torchEnabled.  The overlay
\* with the torch button is shown with the scanner UI once initializing ended.
ToggleTorch ==
    /\ sc.isOpen /\ ~sc.isInitializing
    /\ sc.permissionState = "granted" \/ sc.isScanning
    /\ sc.videoTrackRef # 0 /\ sc.torchSupported
    /\ Apply(Spawn(World, Task("toggleTorch", "applyConstraints",
                                sc.videoTrackRef,
                                IF sc.torchEnabled THEN "off" ELSE "on")))
    /\ UNCHANGED <<hostPerm, clock, syncVars, api, debugInfo, logged>>

\* await applyConstraints settles: setTorchEnabled(newState), or the catch.
\* Whether a track without a torch (or an ended one) rejects the advanced
\* constraint or ignores it is up to the browser.
TorchResolve(t, ok) ==
    /\ t \in tasks /\ t.fn = "toggleTorch"
    /\ Apply(IF ok THEN [Without(t) EXCEPT !.sc.torchEnabled = (t.then = "on")]
             ELSE Without(t))
    /\ UNCHANGED <<hostPerm, clock, syncVars, api, debugInfo, logged>>

\* await scannerRef.current.stop() settles: the engine has let go of the
\* camera and taken its <video> out; the rest of stopScanner, then .then.
StopResolve(t) ==
    /\ t \in tasks /\ t.fn = "stopScanner"
    /\ LET e == t.eng
           W == [Without(t) EXCEPT !.engines[e].st = "stopped",
                                   !.engines[e].track = "stopped",
                                   !.engines[e].vid = FALSE]
       IN Apply(stopScanner_Then(stopScanner_Tail(W), t.then))
    /\ UNCHANGED <<hostPerm, clock, syncVars, api, debugInfo, logged>>

\* A decode callback without its guard.
Suppressed_Never(lastScanned, decodedText) == FALSE

\* The guard of the decode callback: the value is the remembered one.
Suppressed(lastScanned, decodedText) == lastScanned = decodedText

\* Engine e decodes value v from a frame and calls the decode callback; past
\* the guard it remembers v, calls stopScanner().then(() => onScanSuccess(v))
\* and arms the 3000 ms timer.  With no engine stop to wait for, the promise
\* settles at once.  (A suppressed frame changes nothing.)
Frame(e, v) ==
    /\ engines[e].st = "scanning" /\ engines[e].track = "live"
    /\ ~Suppressed(sc.lastScannedRef, v)
    /\ LET W1 == [World EXCEPT !.sc.lastScannedRef = v,
                               !.sc.debounceTimeoutRef = TRUE]
           W2 == stopScanner(W1, v)
       IN Apply(IF W2.tasks = W1.tasks THEN stopScanner_Then(W2, v) ELSE W2)
    /\ clock' = [recent |-> Append(SelectSeq(clock.recent, LAMBDA x : x # v), v),
                 lastAcc |-> <<e, v>>]
    /\ UNCHANGED <<hostPerm, syncVars, api, debugInfo, logged>>

\* The timer of the decode callback fires: lastScannedRef.current = null.
DebounceFire ==
    /\ sc.debounceTimeoutRef
    /\ clock.lastAcc[2] \notin SeqRange(clock.recent)
    /\ sc' = [sc EXCEPT !.lastScannedRef = None, !.debounceTimeoutRef = FALSE]
    /\ UNCHANGED <<engines, tasks, hostPerm, clock, syncVars, api, debugInfo, logged>>

\* Time passes: the oldest of the recent decodes is 3000 ms old.
Tick ==
    /\ clock.recent # <<>>
    /\ clock' = [clock EXCEPT !.recent = Tail(@)]
    /\ UNCHANGED <<sc, engines, tasks, hostPerm, syncVars, api, debugInfo, logged>>

\* ------------------------------------------------------ the specifications
HookIds == 1..MaxMounts
Outcomes == {"ok", "error", "throw"}

NextSync ==
    \/ Mount
    \/ Unmount
    \/ \E b \in BOOLEAN : SetOnline(b)
    \/ \E u \in Users \cup {NoUser} : SetUser(u)
    \/ \E h \in HookIds : ReconnectFire(h)
    \/ \E h \in HookIds : IntervalFire(h)
    \/ \E h \in HookIds, dbOk \in BOOLEAN : ListResolve(h, dbOk)
    \/ \E h \in HookIds, r \in Outcomes : InsertResolve(h, r)
    \/ \E h \in HookIds, dbOk \in BOOLEAN : RemoveResolve(h, dbOk)
    \/ \E data \in Datas, r \in Outcomes : ConfirmOnline(data, r)
    \/ \E data \in Datas, dbOk \in BOOLEAN : ConfirmOffline(data, dbOk)

\* The sync hook, the queue and the dose confirmation.
Spec == Init /\ [][NextSync]_vars

\* The drain of the queue while Index stays mounted and the user, once signed
\* in, stays signed in; connectivity comes and goes, the remote write fails at
\* times, the local store works.
NextDrain ==
    \/ Mount
    \/ \E u \in Users : user = NoUser /\ SetUser(u)
    \/ \E b \in BOOLEAN : SetOnline(b)
    \/ \E h \in HookIds : ReconnectFire(h)
    \/ \E h \in HookIds : IntervalFire(h)
    \/ \E h \in HookIds : ListResolve(h, TRUE)
    \/ \E h \in HookIds, r \in Outcomes : InsertResolve(h, r)
    \/ \E h \in HookIds : RemoveResolve(h, TRUE)
    \/ \E data \in Datas : ConfirmOffline(data, TRUE)

\* Timers that are armed fire, awaited calls settle, and a remote write that
\* is tried again and again succeeds in the end.
DrainFairness ==
    \A h \in HookIds :
       /\ WF_vars(ReconnectFire(h))
       /\ WF_vars(IntervalFire(h))
       /\ WF_vars(ListResolve(h, TRUE))
       /\ WF_vars(\E r \in Outcomes : InsertResolve(h, r))
       /\ SF_vars(InsertResolve(h, "ok"))
       /\ WF_vars(RemoveResolve(h, TRUE))

SpecDrain == Init /\ [][NextDrain]_vars /\ DrainFairness

\* ------------------------------------------- BarcodeScanner: the debug log
\* The strings that the scanner hands to addDebugError.
DebugErrors == {"Video track muted", "getUserMedia not supported"}

\* prev.errors.slice(-9): the last nine entries, or all of them.
SliceLast9(errors) ==
    IF Len(errors) <= 9 THEN errors
    ELSE SubSeq(errors, Len(errors) - 8, Len(errors))

\* An addDebugError that appends without slicing.
addDebugError_Unbounded(prev, time, error) ==
    [prev EXCEPT !.errors = Append(prev.errors, <<time, error>>)]

\* addDebugError's update of debugInfo: the entry is the time of day and the
\* error, after the last nine entries.
addDebugError(prev, time, error) ==
    [prev EXCEPT !.errors = Append(SliceLast9(prev.errors), <<time, error>>)]

\* Some handler of the scanner logs an error; the log is read by the debug
\* panel alone, and the scanner's other specifications leave it out.  The
\* time of day is the number of errors logged before.
LogError(error) ==
    /\ Len(logged) < MaxLogged
    /\ debugInfo' = addDebugError(debugInfo, Len(logged), error)
    /\ logged' = Append(logged, <<Len(logged), error>>)
    /\ UNCHANGED <<scanVars, syncVars, api>>

NextLog == \E error \in DebugErrors : LogError(error)

SpecLog == Init /\ [][NextLog]_vars

\* Two people who use the same device, one after the other.
DeviceUsers == {"u1", "u2"}

\* The queue and its drain on a device where the signed-in user changes.
NextUsers ==
    \/ Mount
    \/ \E u \in DeviceUsers \cup {NoUser} : SetUser(u)
    \/ \E b \in BOOLEAN : SetOnline(b)
    \/ \E h \in HookIds : ReconnectFire(h)
    \/ \E h \in HookIds : IntervalFire(h)
    \/ \E h \in HookIds : ListResolve(h, TRUE)
    \/ \E h \in HookIds, r \in Outcomes : InsertResolve(h, r)
    \/ \E h \in HookIds : RemoveResolve(h, TRUE)
    \/ \E data \in Datas : ConfirmOffline(data, TRUE)

SpecUsers == Init /\ [][NextUsers]_vars

NextStore ==
    \/ \E dose \in ApiDoses, dbOk \in BOOLEAN : ApiSave(dose, dbOk)
    \/ \E dbOk \in BOOLEAN : ApiGet(dbOk)
    \/ \E id \in DoseIds, dbOk \in BOOLEAN : ApiRemove(id, dbOk)

\* The queue alone, its functions called in any order with any arguments.
SpecStore == Init /\ [][NextStore]_vars

NextScan ==
    \/ ScanClick
    \/ onClose
    \/ ParentRerender
    \/ \E t \in tasks : QueryResolve(t)
    \/ \E p \in HostPerms : HostPermChange(p)
    \/ RequestClick
    \/ \E t \in tasks, r \in CameraOutcomes : GetUserMediaResolve(t, r)
    \/ \E t \in tasks : RequestDelayDone(t)
    \/ \E t \in tasks, e \in EngineIds : StartSettled(t, e)
    \/ \E t \in tasks, r \in CameraOutcomes : StartResolve(t, r)
    \/ \E t \in tasks : StopResolve(t)
    \/ \E e \in EngineIds, v \in Codes : Frame(e, v)
    \/ DebounceFire
    \/ Tick

\* The scanner opens with the camera permission in any state.
InitScan ==
    /\ store = << >>
    /\ dose_logs = EmptyBag
    /\ nextId = 0
    /\ isOnline = TRUE
    /\ user = NoUser
    /\ mounts = 0
    /\ hooks = [h \in 1..MaxMounts |-> IdleHook]
    /\ confirm = NoConfirm
    /\ api = <<NoCall, NoCall>>
    /\ sc = InitScanner
    /\ engines = [e \in EngineIds |-> FreeEngine]
    /\ tasks = {}
    /\ hostPerm \in HostPerms
    /\ clock = InitClock
    /\ debugInfo = [errors |-> <<>>]
    /\ logged = <<>>

\* The barcode scanner under its parent, the user, the browser and the clock.
SpecScan == InitScan /\ [][NextScan]_vars


\* The scanner opened and closed by the user, with the camera permission
\* granted and the camera available: every camera request succeeds.
NextReopen ==
    \/ ScanClick
    \/ onClose
    \/ \E t \in tasks : QueryResolve(t)
    \/ RequestClick
    \/ \E t \in tasks : GetUserMediaResolve(t, "ok")
    \/ \E t \in tasks : RequestDelayDone(t)
    \/ \E t \in tasks, e \in EngineIds : StartSettled(t, e)
    \/ \E t \in tasks : StartResolve(t, "ok")
    \/ \E t \in tasks : StopResolve(t)
    \/ \E e \in EngineIds, v \in Codes : Frame(e, v)
    \/ DebounceFire
    \/ Tick

\* Every promise the scanner awaits settles and every timer it waits for
\* fires: a suspended call is resumed.
Resumes ==
    /\ WF_vars(\E t \in tasks : QueryResolve(t))
    /\ WF_vars(\E t \in tasks : GetUserMediaResolve(t, "ok"))
    /\ WF_vars(\E t \in tasks : RequestDelayDone(t))
    /\ WF_vars(\E t \in tasks, e \in EngineIds : StartSettled(t, e))
    /\ WF_vars(\E t \in tasks : StartResolve(t, "ok"))
    /\ WF_vars(\E t \in tasks : StopResolve(t))

InitReopen == InitScan /\ hostPerm = "granted"

SpecReopen == InitReopen /\ [][NextReopen]_vars /\ Resumes

\* The scanner with its torch button: the camera of a session may or may not
\* have a torch.
NextTorch ==
    \/ ScanClick
    \/ onClose
    \/ \E t \in tasks : QueryResolve(t)
    \/ \E t \in tasks, e \in EngineIds : StartSettled(t, e)
    \/ \E t \in tasks, torch \in BOOLEAN : StartResolveWith(t, "ok", torch)
    \/ \E t \in tasks : StopResolve(t)
    \/ \E e \in EngineIds, v \in Codes : Frame(e, v)
    \/ DebounceFire
    \/ Tick
    \/ ToggleTorch
    \/ \E t \in tasks, ok \in BOOLEAN : TorchResolve(t, ok)

SpecTorch == InitReopen /\ [][NextTorch]_vars

\* The permission and error handling of the scanner: every way a camera
\* request fails, the query that rejects, and 'Try Again'.  No frames.
FailureOutcomes ==
    {"NotAllowedError", "NotReadableError", "NotFoundError",
     "OverconstrainedError", "AbortError", "string"}

NextPerm ==
    \/ ScanClick
    \/ onClose
    \/ RequestClick
    \/ RetryClick
    \/ \E t \in tasks :
          \/ QueryResolve(t)
          \/ QueryReject(t)
          \/ \E r \in ({"ok"} \cup FailureOutcomes) \ {"string"} :
                GetUserMediaResolve(t, r)
          \/ RequestDelayDone(t)
          \/ RetryDelayDone(t)
          \/ \E e \in EngineIds : StartSettled(t, e)
          \/ \E r \in {"ok"} \cup FailureOutcomes : StartResolve(t, r)
          \/ StopResolve(t)

SpecPerm == InitScan /\ [][NextPerm]_vars

\* The backoff of consecutive retries against a camera that is busy at times.
NextRetry ==
    \/ ScanClick
    \/ RequestClick
    \/ RetryClick
    \/ \E t \in tasks :
          \/ QueryResolve(t)
          \/ \E r \in {"ok", "NotReadableError"} : GetUserMediaResolve(t, r)
          \/ RequestDelayDone(t)
          \/ RetryDelayDone(t)
          \/ \E e \in EngineIds : StartSettled(t, e)
          \/ \E r \in {"ok", "NotReadableError"} : StartResolve(t, r)
          \/ StopResolve(t)

SpecRetry == InitReopen /\ [][NextRetry]_vars

\* ------------------------------------------------------------------ claims
SnapshotIds(hk) == {hk.pendingDoses[k].id : k \in 1..Len(hk.pendingDoses)}
\* The step moves hook h's pass on: its await settled.
Advanced(h) == hooks'[h].pc # hooks[h].pc \/ hooks'[h].i # hooks[h].i

\* C1: in every drain pass a record leaves the queue if and only if its remote
\* insert was confirmed: a record whose insert returned an error or threw stays
\* queued, a record whose insert was confirmed is gone from the queue when its
\* loop iteration ends, and nothing is removed that was not confirmed first.
C1_RemovedIffConfirmed ==
    [][/\ \A h \in HookIds :
            LET hk == hooks[h] IN
            /\ (hk.pc = "insert" /\ Advanced(h) /\ hooks'[h].pc # "remove")
                  => DOMAIN store' = DOMAIN store
            /\ (hk.pc = "remove" /\ Advanced(h))
                  => hk.pendingDoses[hk.i].id \notin DOMAIN store'
       /\ \A id \in DOMAIN store \ DOMAIN store' :
            \E h \in HookIds :
               /\ hooks[h].pc = "remove"
               /\ hooks[h].pendingDoses[hooks[h].i].id = id
               /\ id \in hooks[h].okIds]_vars

\* C2: a pass over K records whose remote write succeeds exactly for the set S
\* ends with exactly the records outside S still queued, reports |S| synced and
\* K - |S| failed, and a failed record is followed by the next one.
C2_DrainPassResult ==
    [][\A h \in HookIds :
          LET hk == hooks[h]
              K == Len(hk.pendingDoses)
              S == hk.okIds
          IN /\ (hk.pc \in {"insert", "remove"} /\ hooks'[h].pc = "idle")
                  => /\ SnapshotIds(hk) \cap DOMAIN store' = SnapshotIds(hk) \ S
                     /\ hooks'[h].toastSynced = Cardinality(S)
                     /\ hooks'[h].toastFailed = K - Cardinality(S)
             /\ (hk.pc = "insert" /\ Advanced(h) /\ hk.i < K
                   /\ hooks'[h].pc # "remove")
                  => (hooks'[h].pc = "insert" /\ hooks'[h].i = hk.i + 1)]_vars

\* C3: at most one drain pass is in progress in the whole process, and a trigger
\* that arrives at a hook whose pass is in progress changes nothing.
C3_OneDrainPass ==
    [][/\ Cardinality({h \in HookIds : hooks'[h].pc # "idle"}) <= 1
       /\ \A h \in HookIds :
            (hooks[h].isSyncing
               /\ (ReconnectFire(h) \/ IntervalFire(h)))
              => (store' = store /\ hooks'[h].pc = hooks[h].pc)]_vars

\* C4: savePendingDose(d) then getPendingDoses() lists a record equal to d;
\* removePendingDose(id) then getPendingDoses() lists no record with that id;
\* getPendingDoses leaves the queue as it was.
C4_QueueRoundTrip ==
    /\ [](/\ (api[1].name = "save" /\ api[1].ok /\ api[2].name = "get" /\ api[2].ok)
             => api[1].dose \in SeqRange(api[2].result)
          /\ (api[1].name = "remove" /\ api[1].ok /\ api[2].name = "get" /\ api[2].ok)
             => \A k \in 1..Len(api[2].result) : api[2].result[k].id # api[1].id)
    /\ [][(\E dbOk \in BOOLEAN : ApiGet(dbOk)) => store' = store]_vars

\* A save onto a queue that already held another record, then a listing of both.
C4_Witness ==
    /\ api[1].name = "save" /\ api[1].ok
    /\ api[2].name = "get" /\ api[2].ok
    /\ Len(api[2].result) = 2
    /\ api[1].dose = api[2].result[1]

\* C5: a dose confirmed offline is queued with verified = (resolved from the drug
\* database); the pass that the reconnect timer starts over that single record,
\* when its remote write succeeds, ends with the record gone from the queue and
\* a success count of 1 notified.
C5_OfflineConfirmThenSync ==
    [][/\ (confirm' # confirm /\ confirm'.toast = "Saved offline")
            => /\ confirm'.id \in DOMAIN store'
               /\ store'[confirm'.id].verified = ~confirm'.manual
       /\ \A h \in HookIds :
            LET hk == hooks[h] IN
            (/\ hk.pc \in {"insert", "remove"} /\ hooks'[h].pc = "idle"
             /\ hk.by = "reconnect"
             /\ Len(hk.pendingDoses) = 1
             /\ hk.okIds = SnapshotIds(hk))
              => /\ hk.pendingDoses[1].id \notin DOMAIN store'
                 /\ hooks'[h].toastSynced = 1]_vars

\* The decode callback of engine e gets past its guard with value v: it will
\* invoke the success callback.
Fires(e, v) == Frame(e, v)

\* C6: while an engine reports the same string on consecutive frames the success
\* callback is triggered once, not once per frame: no frame of engine e with
\* value v triggers it when the last frame that did was e's with v too.
C6_SameValueFiresOnce ==
    [][\A e \in EngineIds, v \in Codes :
          Fires(e, v) => clock.lastAcc # <<e, v>>]_vars

\* C7: a remembered value is at most 3000 ms old, or the timer that clears it
\* is pending: once the cool-down has elapsed the memory is cleared, in the
\* session of the decode and in any later one.
C7_MemoryClearedAfterCooldown ==
    sc.lastScannedRef # None =>
        \/ sc.lastScannedRef \in SeqRange(clock.recent)
        \/ sc.debounceTimeoutRef

\* C8: for every value v the success callback is triggered at most once for v
\* in any 3-second window, whatever was decoded in between.
C8_OncePerWindow ==
    [][\A e \in EngineIds, v \in Codes :
          Fires(e, v) => v \notin SeqRange(clock.recent)]_vars

\* C8 (amended): the success callback is triggered at most once for v within
\* 3 seconds unless another value was decoded in between: when v triggers it
\* and the last value that triggered it was v too, that was 3 seconds ago or
\* more.
C8_OncePerWindowUnlessOther ==
    [][\A e \in EngineIds, v \in Codes :
          (Fires(e, v) /\ clock.lastAcc[2] = v) =>
              v \notin SeqRange(clock.recent)]_vars

\* An engine is decoding from a live track while the value that triggered the
\* callback less than 3 seconds ago is the remembered one.
C8_Witness ==
    /\ sc.lastScannedRef # None
    /\ sc.lastScannedRef = clock.lastAcc[2]
    /\ sc.lastScannedRef \in SeqRange(clock.recent)
    /\ \E e \in EngineIds :
          engines[e].st = "scanning" /\ engines[e].track = "live"

\* C9: a call of startScanner made while an earlier call is suspended at an
\* await is a no-op: it does not get past the guards.
C9_SecondStartIsNoOp ==
    [][(\E t \in tasks \cap tasks' : t.fn = "startScanner") =>
          ~(\E n \in tasks' \ tasks :
               n.fn = "startScanner" /\ n.pc = "settle")]_vars

\* An engine that is acquiring the camera or decoding from a live track.
Capturing(e) ==
    \/ engines[e].st = "starting"
    \/ engines[e].st = "scanning" /\ engines[e].track = "live"

\* C10: in every reachable state at most one capture session is starting or
\* active.
C10_OneCaptureSession == Cardinality({e \in EngineIds : Capturing(e)}) <= 1

\* No startScanner or stopScanner call is suspended.
StartsAndStopsSettled ==
    ~(\E t \in tasks : t.fn \in {"startScanner", "stopScanner"})

\* C11: while the scanner is closed and every start sequence that was pending
\* at the close has run to its end, the controller holds no camera track and no
\* engine handle and reports neither initializing nor scanning.
C11_ClosedHoldsNothing ==
    (~sc.isOpen /\ StartsAndStopsSettled) =>
        /\ sc.scannerRef = 0
        /\ sc.videoTrackRef = 0
        /\ ~sc.isInitializing
        /\ ~sc.isScanning

\* The scanner has just been opened with the camera permission granted: the
\* effect's permission query is in flight.
JustOpened ==
    /\ sc.isOpen /\ hostPerm = "granted"
    /\ \E t \in tasks : t.fn = "permissions.query"

\* The open scanner reports scanning and an engine decodes from a live track
\* in its container.
ScanningPhase ==
    /\ sc.isOpen /\ sc.isScanning
    /\ \E e \in EngineIds :
          /\ engines[e].st = "scanning" /\ engines[e].track = "live"
          /\ engines[e].dom

\* An engine that the controller does not hold and that goes on using the
\* camera.
Orphan(e) ==
    /\ sc.scannerRef # e
    /\ \/ engines[e].st = "starting"
       \/ engines[e].st = "scanning" /\ engines[e].track = "live"

\* The open did not last, or the model has no slot left for a further engine.
OpenGaveUp ==
    \/ ~sc.isOpen
    \/ \A e \in EngineIds : Orphan(e)

C13_NoTorchNoToggle ==
    [][/\ (sc.videoTrackRef # 0 /\ ~engines[sc.videoTrackRef].cap) =>
             ~(\E n \in tasks' \ tasks : n.fn = "toggleTorch")
       /\ \A t \in tasks :
             (t.fn = "toggleTorch" /\ ~engines[t.eng].cap /\ t \notin tasks')
                 => sc'.torchEnabled = sc.torchEnabled \/ ~sc'.torchEnabled
      ]_vars

\* C14: when the camera request of handleRequestPermission is rejected with
\* NotReadableError, the permission state becomes 'error' with kind busy, not
\* 'denied', and the handler begins no start sequence.
C14_BusyOnNotReadable ==
    [][\A t \in tasks :
          GetUserMediaResolve(t, "NotReadableError") =>
             /\ sc'.permissionState = "error"
             /\ sc'.errorType = "busy"
             /\ sc'.permissionState # "denied"
             /\ {u \in tasks' : u.fn = "startScanner"}
                   \subseteq {u \in tasks : u.fn = "startScanner"}
             /\ sc'.isStartingRef = sc.isStartingRef]_vars

C14_Witness ==
    /\ sc.permissionState = "error"
    /\ sc.errorType = "busy"
    /\ sc.errorMessage = "Camera is busy. Please close other apps using the camera."

\* The camera requests that are under way: a getUserMedia of
\* handleRequestPermission, or a start sequence.
CameraRequests(ts) ==
    {u \in ts : \/ u.fn = "startScanner"
                \/ u.fn = "handleRequestPermission" /\ u.pc = "getUserMedia"}

\* C15: when the permission query of an open reports 'prompt' or cannot
\* determine the state (it rejects), the controller is in the prompt state
\* and the step issues no camera request: no getUserMedia, no start sequence.
C15_PromptWaitsForUser ==
    [][\A t \in tasks :
          (QueryResolve(t) /\ hostPerm = "prompt") \/ QueryReject(t) =>
             /\ sc'.permissionState = "prompt"
             /\ CameraRequests(tasks') \subseteq CameraRequests(tasks)]_vars

\* C16: in the 'denied' state no step issues a camera request or begins a
\* start sequence, and the state stays 'denied', unless the step is the
\* user's: the retry that 'Try Again' set off, or a change of the camera
\* permission in the host's settings.
C16_DeniedIsTerminal ==
    [][/\ sc.permissionState = "denied"
       /\ hostPerm' = hostPerm
       /\ ~ \E t \in tasks : RetryDelayDone(t)
       => /\ sc'.permissionState = "denied"
          /\ CameraRequests(tasks') \subseteq CameraRequests(tasks)]_vars

\* What a finished stopScanner() is to leave behind.
Stopped(s) ==
    /\ s.scannerRef = 0
    /\ ~s.isStartingRef
    /\ ~s.torchEnabled
    /\ ~s.isInitializing
    /\ ~s.isScanning

\* The stops of an engine that are under way.
Stops(ts) == {u \in ts : u.fn = "stopScanner"}

\* C17: stopScanner() is safe in every state.  The engine's stop() is called
\* only on an engine that reports SCANNING; every call, whether it ends at
\* once (here: the one of a close) or after the engine's stop() has settled,
\* ends with no engine handle, the guard cleared, the torch off and neither
\* initializing nor scanning reported; and one more call changes nothing.
C17_StopScannerSafe ==
    [][LET After == [sc |-> sc', engines |-> engines', tasks |-> tasks',
                     over |-> FALSE]
           Ended == \/ \E t \in tasks : StopResolve(t)
                    \/ onClose /\ Stops(tasks') \subseteq Stops(tasks)
       IN /\ \A u \in Stops(tasks') \ Stops(tasks) :
                engines[u.eng].st = "scanning"
          /\ Ended => /\ Stopped(sc')
                      /\ Collect(stopScanner(After, None)) = After]_vars

\* C18: each handleRetry() waits longer than the retry before it (sc.delay
\* holds that one's delay, 0 when the camera has started since), until the
\* delay is 2000 ms, and never longer than 2000 ms.
C18_BackoffGrows ==
    [][\A u \in tasks' \ tasks :
          u.fn = "handleRetry" =>
             /\ sc'.delay <= 2000
             /\ sc'.delay > sc.delay \/ sc'.delay = 2000]_vars

\* The texts the controller has of its own for the error view.
GuidanceTexts ==
    {"Camera access was denied. Please allow camera access to scan barcodes.",
     "Camera is busy or unavailable. Please close other camera apps and try again.",
     "No camera found on this device.",
     "Camera settings not supported. Please try again.",
     "Failed to start camera. Please try again.",
     "Camera is busy. Please close other apps using the camera.",
     "Failed to access camera.",
     "Camera is not supported on this device or browser."}

\* C19: the error message the controller shows is always one of its own
\* guidance texts (or none), never the message or name of the host's error.
C19_OnlyGuidanceShown == sc.errorMessage \in GuidanceTexts \cup {None}

\* The error kind that a value of errorType stands for; errorType has these
\* four values and null.
Kind(errorType) ==
    CASE errorType = "denied" -> "permission-denied"
      [] errorType = "busy" -> "device-busy"
      [] errorType = "not-found" -> "device-not-found"
      [] errorType = "generic" -> "generic"
      [] OTHER -> None

\* The kind that the cause of a failure calls for.
KindOfCause(r) ==
    CASE r = "NotAllowedError" -> "permission-denied"
      [] r = "NotReadableError" -> "device-busy"
      [] r = "NotFoundError" -> "device-not-found"
      [] r = "OverconstrainedError" -> "unsupported-constraints"
      [] OTHER -> "generic"

\* C20: every failure of the permission request or of the start sequence
\* (the missing container included, which is no absent camera) leaves the
\* error kind that its cause calls for.
C20_KindByCause ==
    [][\A t \in tasks :
          /\ \A r \in FailureOutcomes :
                GetUserMediaResolve(t, r) \/ StartResolve(t, r) =>
                   Kind(sc'.errorType) = KindOfCause(r)
          /\ StartSettled(t, 1) /\ ~sc.isOpen =>
                Kind(sc'.errorType) = KindOfCause("container")]_vars

\* C21: when a dose is confirmed offline and savePendingDose fails, the
\* confirmation ends with the error notification, not with 'Saved offline',
\* and the queue is as it was.
C21_FailedSaveIsSurfaced ==
    [][\A data \in Datas :
          ConfirmOffline(data, FALSE) =>
             /\ confirm'.toast = "Error"
             /\ store' = store]_vars

\* A failed offline confirmation that followed a queued one.
C21_Witness ==
    /\ confirm.toast = "Error" /\ confirm.id # 0
    /\ DOMAIN store # {}

\* C22: a drain pass that ends, however it ends, leaves isSyncing false: a
\* hook that is not in a pass never has the flag set, and a trigger that
\* arrives at such a hook while a user is signed in starts a pass.
C22_FlagClearedAtEnd ==
    /\ [](\A h \in HookIds : hooks[h].pc = "idle" => ~hooks[h].isSyncing)
    /\ [][\A h \in HookIds :
            /\ (hooks[h].pc # "idle" /\ hooks'[h].pc = "idle")
                  => ~hooks'[h].isSyncing
            /\ (/\ hooks[h].pc = "idle" /\ user # NoUser
                /\ ReconnectFire(h) \/ IntervalFire(h))
                  => (hooks'[h].pc = "list" /\ hooks'[h].isSyncing)]_vars

\* A pass has ended with a failed record, and the periodic timer is armed.
C22_Witness ==
    \E h \in HookIds :
       /\ hooks[h].finished /\ hooks[h].toastFailed > 0
       /\ hooks[h].pc = "idle" /\ hooks[h].interval

C24_TriggersOnlyOnline ==
    /\ [](\A h \in HookIds :
             hooks[h].reconnectTimer \/ hooks[h].interval
                => isOnline /\ user # NoUser)
    /\ [][\A h \in HookIds :
            (/\ ReconnectFire(h) \/ IntervalFire(h)
             /\ hooks[h].pc = "idle" /\ hooks'[h].pc = "list")
               => isOnline /\ user # NoUser]_vars

\* Connectivity was online (a row was written) and has dropped: both timers
\* of the mounted hook are gone, with a record waiting in the queue.
C24_Witness ==
    \E h \in HookIds :
       /\ hooks[h].mounted /\ user # NoUser /\ ~isOnline
       /\ ~hooks[h].reconnectTimer /\ ~hooks[h].interval
       /\ hooks[h].pc = "idle" /\ DOMAIN store # {}
       /\ BagCardinality(dose_logs) > 0

\* The session of engine slot e is torn down: the engine is not running and
\* its camera track is not live.
TornDown(es, e) ==
    /\ es[e].st \in {"none", "stopped", "failed"}
    /\ es[e].track # "live"

\* C25: the success callback is invoked with the decoded value, and only
\* after the session that decoded it has been torn down.  It is invoked in
\* the step of the decode when stopScanner() has no engine stop to wait for,
\* and otherwise in the step in which the awaited stop settles.
C25_TeardownBeforeCallback ==
    [][/\ \A e \in EngineIds, v \in Codes :
            Frame(e, v) =>
               /\ \A u \in Stops(tasks') \ Stops(tasks) : u.then = v
               /\ Stops(tasks') \subseteq Stops(tasks)
                     => (TornDown(engines', e) /\ ~sc'.isScanning)
       /\ \A t \in tasks :
            StopResolve(t) /\ t.then \in Codes =>
               (TornDown(engines', t.eng) /\ ~sc'.isScanning)]_vars

\* C26: the error log of the debug panel holds at most 10 entries: the most
\* recently logged ones, in the order in which they were logged.
C26_LogIsLastTen ==
    /\ Len(debugInfo.errors) <= 10
    /\ debugInfo.errors =
          SubSeq(logged, Len(logged) - Len(debugInfo.errors) + 1, Len(logged))
    /\ Len(logged) >= 10 => Len(debugInfo.errors) = 10
    /\ Len(logged) < 10 => debugInfo.errors = logged

\* More than ten errors were logged, of both kinds.
C26_Witness ==
    /\ Len(logged) > 10
    /\ Len(debugInfo.errors) = 10
    /\ debugInfo.errors[1][2] # debugInfo.errors[10][2]

\* C27: no queue record is written to the remote table more than once,
\* whatever happens to its removal from the queue.
C27_InsertedAtMostOnce ==
    \A row \in BagToSet(dose_logs) :
       row.id # 0 => CopiesIn(row, dose_logs) <= 1

\* C28: a confirmation that reports 'Dose logged!' has written the dose to
\* the remote table, and one that reports 'Saved offline' has appended it to
\* the pending queue.
C28_SuccessMeansStored ==
    [][\A data \in Datas :
          /\ \A r \in Outcomes :
                ConfirmOnline(data, r) /\ confirm'.toast = "Dose logged!" =>
                   CopiesIn([id |-> 0] @@ DoseData(data), dose_logs')
                      = CopiesIn([id |-> 0] @@ DoseData(data), dose_logs) + 1
          /\ \A dbOk \in BOOLEAN :
                ConfirmOffline(data, dbOk) /\ confirm'.toast = "Saved offline" =>
                   /\ confirm'.id \in DOMAIN store'
                   /\ confirm'.id \notin DOMAIN store]_vars

\* C29: torchEnabled is true only while the controller holds a live camera
\* track of a capture session.
C29_TorchOnlyWithLiveTrack ==
    sc.torchEnabled =>
       /\ sc.videoTrackRef # 0
       /\ engines[sc.videoTrackRef].track = "live"

\* C30: a pass attempts the remote write of a queue record only if the
\* record's user_id is the user who is signed in when the attempt begins.
C30_OnlyOwnRecords ==
    [][\A h \in HookIds :
          (hooks'[h].pc = "insert" /\ Advanced(h)) =>
             hooks'[h].pendingDoses[hooks'[h].i].user_id = user']_vars

==============================================================================
